---- MODULE Spec2Model ----
(***************************************************************************)
(* Hadoop-streaming practicals: sparse matrix multiplication (MatMul       *)
(* mapper and reducer) and the WordCount reducer, modelled as state        *)
(* machines over text records.                                             *)
(* A text is a sequence of one-character strings; the conversions the      *)
(* programs perform (strip, split, int(), float(), f-string formatting)    *)
(* are modelled character by character.                                    *)
(*                                                                         *)
(* Value domain: a matrix value is a Python float that is either a small   *)
(* integer s, |s| < 2^19, or a multiple c * 1e17 of 1e17, 0 < |c| <= 1000. *)
(* Both kinds are doubles exactly (1e17 = 5^17 * 2^17 and c * 5^17 < 2^53) *)
(* and the doubles next to c * 1e17 are at least 16 apart.  The real       *)
(* number c * 1e17 + s is held as the integer c * E17 + s, so that sums    *)
(* and products of reals are sums and products of integers, and a float    *)
(* operation is the real operation followed by Round, the rounding to the  *)
(* nearest double.  An operation that would leave the value domain has no  *)
(* value: evaluation stops there instead of going on with a wrong number.  *)
(***************************************************************************)
EXTENDS Integers, Sequences, FiniteSets

VARIABLES
    environ,      \* mapper.py: os.environ, the settings present and their texts
    MAX_I,        \* mapper.py: MAX_I, rows of A
    MAX_K,        \* mapper.py: MAX_K, columns of B
    mapper_in,    \* lines the mapper has read from sys.stdin so far
    mapper_out,   \* lines the mapper has printed so far
    shards,       \* mapper instances run side by side, one record each: the
                  \* lines it has yet to write and its position
    mapper_pc,    \* "start" (before line 5) | "loop" | "done" (end of input) |
                  \* "KeyError" | "ValueError" (traceback)
    pending,      \* shuffle: lines of mapper_out not yet handed to the reducer,
                  \* each as its index n and its key text
    last_key,     \* shuffle: key text of the line handed over last
    reducer_in,   \* lines the reducer has read from a directly fed stdin
    current_key,  \* reducer.py: current_key (NoKey models None)
    Avals,        \* reducer.py: Avals, insertion-ordered dict
    Bvals,        \* reducer.py: Bvals, insertion-ordered dict
    reducer_out,  \* lines the reducer has printed so far
    reducer_pc,   \* "idle" | "loop" | "done" | "ValueError"
    flushed,      \* history: one record per flush call that passed `if not key`
    current_word, \* WordCount reducer.py: current_word, <<>> for None and
                  \* <<word>> for a word
    current_count,\* WordCount reducer.py: current_count
    word_in,      \* lines the WordCount reducer has read from sys.stdin
    word_out,     \* lines the WordCount reducer has printed so far
    word_pc       \* "off" (not run) | "loop" | "done" (end of input)

vars == <<environ, MAX_I, MAX_K, mapper_in, mapper_out, mapper_pc, shards,
          pending, last_key,
          reducer_in, current_key, Avals, Bvals, reducer_out, reducer_pc,
          flushed, current_word, current_count, word_in, word_out, word_pc>>

mapperVars == <<environ, MAX_I, MAX_K, mapper_in, mapper_out, mapper_pc,
                shards>>
shuffleVars == <<pending, last_key>>
reducerVars == <<reducer_in, current_key, Avals, Bvals, reducer_out,
                 reducer_pc, flushed>>
wordVars == <<current_word, current_count, word_in, word_out, word_pc>>

----------------------------------------------------------------------------
(* Bounds *)

MaxLines == 3      \* lines the mapper reads in one run (free input)
MaxDim == 2        \* MAX_I and MAX_K range over 1..MaxDim
MaxFeed == 4       \* lines fed directly to the reducer in one run

----------------------------------------------------------------------------
(* Text primitives *)

TAB == "\t"
NL == "\n"
COMMA == ","

Digits == <<"0", "1", "2", "3", "4", "5", "6", "7", "8", "9">>

IsDigit(ch) == \E d \in 1..10 : Digits[d] = ch

DigitVal(ch) == (CHOOSE d \in 1..10 : Digits[d] = ch) - 1

\* str.strip() with no argument removes these
IsSpace(ch) == ch \in {" ", TAB, NL}

RECURSIVE LStrip(_)
LStrip(s) ==
    IF s = <<>> THEN s
    ELSE IF IsSpace(Head(s)) THEN LStrip(Tail(s)) ELSE s

RECURSIVE RStrip(_)
RStrip(s) ==
    IF s = <<>> THEN s
    ELSE IF IsSpace(s[Len(s)]) THEN RStrip(SubSeq(s, 1, Len(s) - 1)) ELSE s

Strip(s) == RStrip(LStrip(s))

\* str.split(sep, maxsplit): at most maxsplit cuts, the rest stays whole
RECURSIVE SplitAcc(_, _, _, _)
SplitAcc(s, sep, maxsplit, cur) ==
    IF s = <<>> THEN <<cur>>
    ELSE IF Head(s) = sep /\ maxsplit > 0
         THEN <<cur>> \o SplitAcc(Tail(s), sep, maxsplit - 1, <<>>)
         ELSE SplitAcc(Tail(s), sep, maxsplit, Append(cur, Head(s)))

Split(s, sep, maxsplit) == SplitAcc(s, sep, maxsplit, <<>>)

SplitAll(s, sep) == SplitAcc(s, sep, Len(s), <<>>)

RECURSIVE Join(_, _)
Join(parts, sep) ==
    IF parts = <<>> THEN <<>>
    ELSE IF Len(parts) = 1 THEN parts[1]
    ELSE parts[1] \o <<sep>> \o Join(Tail(parts), sep)

UpperChar(ch) ==
    CASE ch = "a" -> "A"
      [] ch = "b" -> "B"
      [] ch = "c" -> "C"
      [] ch = "x" -> "X"
      [] OTHER -> ch

\* str.upper()
Upper(s) == [n \in 1..Len(s) |-> UpperChar(s[n])]

AllDigits(s) == \A n \in 1..Len(s) : IsDigit(s[n])

RECURSIVE DigitsVal(_)
DigitsVal(s) ==
    IF s = <<>> THEN 0
    ELSE 10 * DigitsVal(SubSeq(s, 1, Len(s) - 1)) + DigitVal(s[Len(s)])

ValueError == [ok |-> FALSE, val |-> 0]

Parsed(n) == [ok |-> TRUE, val |-> n]

HasSign(s) == s # <<>> /\ Head(s) \in {"+", "-"}

Unsigned(s) == IF HasSign(s) THEN Tail(s) ELSE s

Signed(s, n) == IF s # <<>> /\ Head(s) = "-" THEN 0 - n ELSE n

IntOf(s) ==
    IF Unsigned(s) # <<>> /\ AllDigits(Unsigned(s))
    THEN Parsed(Signed(s, DigitsVal(Unsigned(s))))
    ELSE ValueError

\* int(text): surrounding whitespace, an optional sign, one or more digits
ParseInt(text) == IntOf(Strip(text))

AllZeros(s) == \A n \in 1..Len(s) : s[n] = "0"

\* the integer that holds the real number 1e17
E17 == 1048576

Magnitude(n) == IF n < 0 THEN 0 - n ELSE n

\* the real number held by n is c * 1e17 + s with c = Coeff(n), s = Rest(n)
Coeff(n) == (n + E17 \div 2) \div E17

Rest(n) == n - Coeff(n) * E17

IsSmall(n) == Magnitude(n) < E17 \div 2

\* the double nearest to a real of the form c * 1e17 + s: s itself when
\* c = 0, and c * 1e17 when c # 0 and |s| < 8, half the least distance
\* between doubles of that size
Round(n) ==
    CASE Coeff(n) = 0 -> n
      [] Coeff(n) # 0 /\ Magnitude(Coeff(n)) <= 1000 /\ Magnitude(Rest(n)) < 8
            -> Coeff(n) * E17

Outside == [ok |-> TRUE, val |-> "outside the value domain"]

\* the digits of a float without exponent; more than 6 digits do not give a
\* small integer
FloatOfDigits(s, whole, frac) ==
    IF AllDigits(whole) /\ AllDigits(frac) /\ Len(whole) + Len(frac) > 0
    THEN IF AllZeros(frac)
         THEN IF Len(whole) <= 6 /\ IsSmall(DigitsVal(whole))
              THEN Parsed(Signed(s, DigitsVal(whole)))
              ELSE Outside
         ELSE [ok |-> TRUE, val |-> "non-integral"]
    ELSE ValueError

\* mantissa * 10^exponent, inside the value domain
Scaled(m, e) ==
    CASE e = 0 -> Parsed(m)
      [] e = 1 /\ IsSmall(10 * m) -> Parsed(10 * m)
      [] e = 17 /\ Magnitude(m) <= 1000 -> Parsed(m * E17)
      [] OTHER -> Outside

WithExponent(m, e) ==
    IF m.ok /\ e.ok THEN Scaled(m.val, e.val) ELSE ValueError

ExponentMark(ch) == IF ch = "E" THEN "e" ELSE ch

\* the text before and after the first "e" or "E"
ExponentSplit(t) == Split([n \in 1..Len(t) |-> ExponentMark(t[n])], "e", 1)

FloatOfParts(s, p) ==
    IF Len(p) = 1 THEN FloatOfDigits(s, p[1], <<>>)
    ELSE IF Len(p) = 2 THEN FloatOfDigits(s, p[1], p[2])
    ELSE ValueError

FloatOfExponent(s, p) ==
    IF Len(p) = 1 THEN FloatOfParts(s, SplitAll(p[1], "."))
    ELSE WithExponent(FloatOfParts(s, SplitAll(p[1], ".")), IntOf(p[2]))

FloatOf(s) == FloatOfExponent(s, ExponentSplit(Unsigned(s)))

\* float(text) on the value domain: surrounding whitespace, an optional sign,
\* digits with an optional "." and fraction, an optional exponent.  A
\* fraction other than zeros is a float outside the value domain and is
\* reported as such.
ParseFloat(text) == FloatOf(Strip(text))

RECURSIVE FormatNat(_)
FormatNat(n) ==
    IF n < 10 THEN <<Digits[n + 1]>>
    ELSE FormatNat(n \div 10) \o <<Digits[(n % 10) + 1]>>

\* f"{n}" for an int
FormatInt(n) == IF n < 0 THEN <<"-">> \o FormatNat(0 - n) ELSE FormatNat(n)

RECURSIVE StripZeros(_)
StripZeros(ds) ==
    IF Len(ds) > 1 /\ ds[Len(ds)] = "0"
    THEN StripZeros(SubSeq(ds, 1, Len(ds) - 1))
    ELSE ds

\* d.ddd for the digits of a mantissa, without trailing zeros
Mantissa(ds) ==
    IF Len(StripZeros(ds)) = 1 THEN StripZeros(ds)
    ELSE <<Head(ds), ".">> \o Tail(StripZeros(ds))

\* repr of c * 1e17: the shortest digits that give the double back, in
\* exponent notation as for every float of 1e16 and more
FormatE17(c) ==
    (IF c < 0 THEN <<"-">> ELSE <<>>)
        \o Mantissa(FormatNat(Magnitude(c))) \o <<"e", "+">>
        \o FormatNat(17 + Len(FormatNat(Magnitude(c))) - 1)

\* f"{v}" for a float: repr gives the digits followed by ".0" for a small
\* integer
FormatFloat(v) ==
    CASE IsSmall(v) -> FormatInt(v) \o <<".", "0">>
      [] ~IsSmall(v) /\ Rest(v) = 0 -> FormatE17(Coeff(v))

\* print(text) writes the text and a newline
EmitLine(text) == text \o <<NL>>

\* x + y on floats: exact between small integers, rounded otherwise
FAdd(x, y) ==
    CASE IsSmall(x) /\ IsSmall(y) /\ IsSmall(x + y) -> x + y
      [] ~(IsSmall(x) /\ IsSmall(y)) -> Round(x + y)

\* x * y on floats: exact between small integers, rounded otherwise
FMul(x, y) ==
    CASE IsSmall(x) /\ IsSmall(y) /\ IsSmall(x * y) -> x * y
      [] IsSmall(x) # IsSmall(y) -> Round(x * y)

----------------------------------------------------------------------------
(* Input records *)

Field4(a, b, c, d) == Join(<<a, b, c, d>>, COMMA)

\* NAME,ROW,COL,VALUE as it is usually written, with its meaning
MatrixEntry(name, src, row, col, val) ==
    [raw |-> Field4(name, FormatInt(row), FormatInt(col), FormatInt(val))
             \o <<NL>>,
     src |-> src, row |-> row, col |-> col, val |-> val]

\* section 8: A = [[1,2],[3,4]], B = [[5,6],[7,8]]
ExampleEntries ==
    << MatrixEntry(<<"A">>, "A", 0, 0, 1), MatrixEntry(<<"A">>, "A", 0, 1, 2),
       MatrixEntry(<<"A">>, "A", 1, 0, 3), MatrixEntry(<<"A">>, "A", 1, 1, 4),
       MatrixEntry(<<"B">>, "B", 0, 0, 5), MatrixEntry(<<"B">>, "B", 0, 1, 6),
       MatrixEntry(<<"B">>, "B", 1, 0, 7), MatrixEntry(<<"B">>, "B", 1, 1, 8) >>

ExampleLines == [n \in 1..Len(ExampleEntries) |-> ExampleEntries[n].raw]

----------------------------------------------------------------------------
(* MatMul mapper *)

\* print(f"{r},{k_idx}\tA,{c},{v}") and print(f"{i_idx},{c}\tB,{r},{v}")
PairLine(i, k, src, j, v) ==
    EmitLine(FormatInt(i) \o <<COMMA>> \o FormatInt(k) \o <<TAB>> \o src
             \o <<COMMA>> \o FormatInt(j) \o <<COMMA>> \o FormatFloat(v))

\* a plausible slip: the A loop runs over MAX_I and keys on the column
ABranchSlip(r, c, v, maxi, maxk) ==
    [n \in 1..maxi |-> PairLine(c, n - 1, <<"A">>, r, v)]

\* a plausible slip: the pair for k_idx = 0 only, no fan-out
ABranchOnce(r, c, v, maxi, maxk) ==
    [n \in 1..(IF maxk > 0 THEN 1 ELSE 0) |-> PairLine(r, n - 1, <<"A">>, c, v)]

\* for k_idx in range(MAX_K): one pair per candidate output column
ABranch(r, c, v, maxi, maxk) ==
    [n \in 1..maxk |-> PairLine(r, n - 1, <<"A">>, c, v)]

\* a plausible slip: the B loop runs over MAX_K and the inner index is the column
BBranchSlip(r, c, v, maxi, maxk) ==
    [n \in 1..maxk |-> PairLine(n - 1, r, <<"B">>, c, v)]

\* for i_idx in range(MAX_I): one pair per candidate output row
BBranch(r, c, v, maxi, maxk) ==
    [n \in 1..maxi |-> PairLine(n - 1, c, <<"B">>, r, v)]

\* a plausible slip: `else` in place of `elif name.upper() == 'B'`
DispatchElse(name, r, c, v, maxi, maxk) ==
    IF Upper(name) = <<"A">> THEN ABranch(r, c, v, maxi, maxk)
    ELSE BBranch(r, c, v, maxi, maxk)

\* if name.upper() == 'A': ... elif name.upper() == 'B': ...
Dispatch(name, r, c, v, maxi, maxk) ==
    IF Upper(name) = <<"A">> THEN ABranch(r, c, v, maxi, maxk)
    ELSE IF Upper(name) = <<"B">> THEN BBranch(r, c, v, maxi, maxk)
    ELSE <<>>

Continue == [pc |-> "loop", out |-> <<>>]
Raise == [pc |-> "ValueError", out |-> <<>>]

\* r, c, v = int(r), int(c), float(v), then the dispatch on name
Converted(name, r, c, v, maxi, maxk) ==
    IF r.ok /\ c.ok /\ v.ok
    THEN [pc |-> "loop", out |-> Dispatch(name, r.val, c.val, v.val, maxi, maxk)]
    ELSE Raise

\* name, r, c, v = parts; r, c, v = int(r), int(c), float(v); dispatch
Convert(parts, maxi, maxk) ==
    Converted(parts[1], ParseInt(parts[2]), ParseInt(parts[3]),
              ParseFloat(parts[4]), maxi, maxk)

\* a plausible slip: no field-count test, so the unpacking raises
MapFieldsNoCount(parts, maxi, maxk) ==
    IF Len(parts) # 4 THEN Raise ELSE Convert(parts, maxi, maxk)

\* parts = line.split(','); if len(parts) != 4: continue
MapFields(parts, maxi, maxk) ==
    IF Len(parts) # 4 THEN Continue ELSE Convert(parts, maxi, maxk)

\* if not line or line.startswith('#'): continue
MapLine(line, maxi, maxk) ==
    IF line = <<>> \/ Head(line) = "#" THEN Continue
    ELSE MapFields(SplitAll(line, COMMA), maxi, maxk)

\* one iteration of `for raw in sys.stdin`: line = raw.strip() and the rest
MapRecord(raw, maxi, maxk) == MapLine(Strip(raw), maxi, maxk)

\* the whole loop over a stream: an uncaught ValueError ends it
RECURSIVE MapAll(_, _, _)
MapAll(lines, maxi, maxk) ==
    IF lines = <<>> THEN Continue
    ELSE LET first == MapRecord(Head(lines), maxi, maxk)
         IN  IF first.pc = "ValueError" THEN first
             ELSE LET rest == MapAll(Tail(lines), maxi, maxk)
                  IN  [pc |-> rest.pc, out |-> first.out \o rest.out]

\* the two settings as os.environ holds them when both are present
Environ(maxi, maxk) ==
    [name \in {"MAX_I", "MAX_K"} |->
        IF name = "MAX_I" THEN FormatInt(maxi) ELSE FormatInt(maxk)]

\* a name that line 5 or 6 did not bind is held as 0 and is never read:
\* the loop is not entered
Unconfigured(pc, maxi) == [pc |-> pc, maxi |-> maxi, maxk |-> 0]

\* MAX_K = int(...) has a value
ConfiguredK(maxi, k) ==
    IF k.ok THEN [pc |-> "loop", maxi |-> maxi, maxk |-> k.val]
    ELSE Unconfigured("ValueError", maxi)

\* MAX_I = int(...) has a value; line 6: MAX_K = int(os.environ["MAX_K"])
ConfiguredI(env, i) ==
    IF ~i.ok THEN Unconfigured("ValueError", 0)
    ELSE IF "MAX_K" \notin DOMAIN env THEN Unconfigured("KeyError", i.val)
    ELSE ConfiguredK(i.val, ParseInt(env["MAX_K"]))

\* a plausible slip: os.environ.get("MAX_I", "1"), a default for a missing setting
ConfigureDefault(env) ==
    IF "MAX_I" \notin DOMAIN env
    THEN ConfiguredI(env, ParseInt(<<"1">>))
    ELSE ConfiguredI(env, ParseInt(env["MAX_I"]))

\* line 5: MAX_I = int(os.environ["MAX_I"]), then line 6
Configure(env) ==
    IF "MAX_I" \notin DOMAIN env THEN Unconfigured("KeyError", 0)
    ELSE ConfiguredI(env, ParseInt(env["MAX_I"]))

MapperConfigured(res) ==
    /\ MAX_I' = res.maxi
    /\ MAX_K' = res.maxk
    /\ mapper_pc' = res.pc

\* lines 5-6, before the loop reads anything
MapperConfig ==
    /\ mapper_pc = "start"
    /\ MapperConfigured(Configure(environ))
    /\ UNCHANGED <<environ, mapper_in, mapper_out, shards>>
    /\ UNCHANGED shuffleVars
    /\ UNCHANGED reducerVars
    /\ UNCHANGED wordVars

MapperBecomes(raw, res) ==
    /\ mapper_in' = Append(mapper_in, raw)
    /\ mapper_out' = mapper_out \o res.out
    /\ mapper_pc' = res.pc

\* the mapper reads the line raw and runs one iteration on it
MapperRead(raw) ==
    /\ mapper_pc = "loop"
    /\ MapperBecomes(raw, MapRecord(raw, MAX_I, MAX_K))
    /\ UNCHANGED <<environ, MAX_I, MAX_K, shards>>

\* end of sys.stdin: the loop ends.  The inputs are the streams of at most
\* MaxLines lines and the worked example, so the input ends only on those.
MapperEOF ==
    /\ mapper_pc = "loop"
    /\ Len(mapper_in) <= MaxLines \/ mapper_in = ExampleLines
    /\ mapper_pc' = "done"
    /\ UNCHANGED <<environ, MAX_I, MAX_K, mapper_in, mapper_out, shards>>
    /\ UNCHANGED shuffleVars
    /\ UNCHANGED reducerVars
    /\ UNCHANGED wordVars

----------------------------------------------------------------------------
(* MatMul reducer *)

NoKey == <<>>     \* current_key = None

\* j in d
DictHas(d, j) == \E n \in 1..Len(d) : d[n].k = j

\* d[j] for a key that is present
DictGet(d, j) == d[CHOOSE n \in 1..Len(d) : d[n].k = j].v

DictKeys(d) == {d[n].k : n \in 1..Len(d)}

\* a plausible slip: `=` in place of `+=`
DictAddOverwrite(d, j, v) ==
    IF DictHas(d, j)
    THEN [n \in 1..Len(d) |-> IF d[n].k = j THEN [k |-> j, v |-> v] ELSE d[n]]
    ELSE Append(d, [k |-> j, v |-> v])

\* d[j] += v on a defaultdict(float): a missing key starts from 0.0 and is
\* inserted last
DictAdd(d, j, v) ==
    IF DictHas(d, j)
    THEN [n \in 1..Len(d) |->
            IF d[n].k = j THEN [k |-> j, v |-> FAdd(d[n].v, v)] ELSE d[n]]
    ELSE Append(d, [k |-> j, v |-> FAdd(0, v)])

\* print(f"{i} {k} {total}")
OutLine(i, k, total) ==
    EmitLine(FormatInt(i) \o <<" ">> \o FormatInt(k) \o <<" ">>
             \o FormatFloat(total))

\* a plausible slip: a `break` after the first inner index found in B
RECURSIVE FlushLoopFirstMatch(_, _, _, _)
FlushLoopFirstMatch(A, B, n, total) ==
    IF n > Len(A) THEN [total |-> total, B |-> B]
    ELSE IF DictHas(B, A[n].k)
         THEN [total |-> FAdd(total, FMul(A[n].v, DictGet(B, A[n].k))),
               B |-> B]
         ELSE FlushLoopFirstMatch(A, B, n + 1, total)

\* for j, a in A.items(): if j in B: total += a * B[j]
RECURSIVE FlushLoop(_, _, _, _)
FlushLoop(A, B, n, total) ==
    IF n > Len(A) THEN [total |-> total, B |-> B]
    ELSE IF DictHas(B, A[n].k)
         THEN FlushLoop(A, B, n + 1,
                        FAdd(total, FMul(A[n].v, DictGet(B, A[n].k))))
         ELSE FlushLoop(A, B, n + 1, total)

\* a plausible slip: no `if j in B`, so B[j] inserts the default 0.0
RECURSIVE FlushLoopNoTest(_, _, _, _)
FlushLoopNoTest(A, B, n, total) ==
    IF n > Len(A) THEN [total |-> total, B |-> B]
    ELSE LET B1 == DictAdd(B, A[n].k, 0)
         IN  FlushLoopNoTest(A, B1, n + 1,
                             FAdd(total, FMul(A[n].v, DictGet(B1, A[n].k))))

\* what one flush call leaves: the dicts and the lines it printed
FlushResult(key, A, loop) ==
    [A |-> A, B |-> loop.B,
     out |-> IF loop.total # 0
             THEN <<OutLine(key[1], key[2], loop.total)>>
             ELSE <<>>]

FlushNoTest(key, A, B) == FlushResult(key, A, FlushLoopNoTest(A, B, 1, 0))

\* a plausible slip: `if total > 0.0`
FlushPositive(key, A, B) ==
    LET loop == FlushLoop(A, B, 1, 0)
    IN  [A |-> A, B |-> loop.B,
         out |-> IF loop.total > 0
                 THEN <<OutLine(key[1], key[2], loop.total)>>
                 ELSE <<>>]

\* a plausible slip: the line is printed without `if total != 0.0`
FlushAlways(key, A, B) ==
    [A |-> A, B |-> B,
     out |-> <<OutLine(key[1], key[2], FlushLoop(A, B, 1, 0).total)>>]

\* flush(key, A, B) after `if not key: return`
Flush(key, A, B) == FlushResult(key, A, FlushLoop(A, B, 1, 0))

\* a dict as a mapping, without its insertion order
AsMap(d) == [j \in DictKeys(d) |-> DictGet(d, j)]

\* a flush call that got past `if not key`, logged with its key, the dicts it
\* was given (A, B), the dicts it leaves (A2, B2) and its output
Logged(key, A, B, f) ==
    [A |-> f.A, B |-> f.B, out |-> f.out,
     log |-> <<[key |-> key, A |-> AsMap(A), B |-> AsMap(B),
                A2 |-> AsMap(f.A), B2 |-> AsMap(f.B), out |-> f.out]>>]

\* the effect of a flush call on the reducer: `if not key: return` does
\* nothing and logs nothing
FlushCall(key, A, B) ==
    IF key = NoKey
    THEN [A |-> A, B |-> B, out |-> <<>>, log |-> <<>>]
    ELSE Logged(key, A, B, Flush(key, A, B))

NoKeyText == [ok |-> FALSE, i |-> 0, k |-> 0, payload |-> <<>>]

KeyOfInts(i, k, payload) ==
    IF i.ok /\ k.ok
    THEN [ok |-> TRUE, i |-> i.val, k |-> k.val, payload |-> payload]
    ELSE NoKeyText

\* i, k = map(int, key_str.split(','))
KeyOfFields(ks, payload) ==
    IF Len(ks) = 2 THEN KeyOfInts(ParseInt(ks[1]), ParseInt(ks[2]), payload)
    ELSE NoKeyText

\* key_str, payload = line.split('\t', 1)
KeyOfHalves(halves) ==
    IF Len(halves) = 2
    THEN KeyOfFields(SplitAll(halves[1], COMMA), halves[2])
    ELSE NoKeyText

\* lines 24-25
ParseKey(line) == KeyOfHalves(Split(line, TAB, 1))

NoPayload == [ok |-> FALSE, src |-> <<>>, j |-> 0, v |-> 0]

\* j, v = int(j_str), float(v_str)
PayloadOfFields(src, j, v) ==
    IF j.ok /\ v.ok
    THEN [ok |-> TRUE, src |-> src, j |-> j.val, v |-> v.val]
    ELSE NoPayload

\* src, j_str, v_str = payload.split(',', 2)
PayloadOfParts(fs) ==
    IF Len(fs) = 3
    THEN PayloadOfFields(fs[1], ParseInt(fs[2]), ParseFloat(fs[3]))
    ELSE NoPayload

\* lines 26-27
ParsePayload(payload) == PayloadOfParts(Split(payload, COMMA, 2))

NoPair == [ok |-> FALSE, i |-> 0, k |-> 0, src |-> <<>>, j |-> 0, v |-> 0]

PairOfParts(key, pl) ==
    IF pl.ok
    THEN [ok |-> TRUE, i |-> key.i, k |-> key.k, src |-> pl.src,
          j |-> pl.j, v |-> pl.v]
    ELSE NoPair

PairOfKey(key) ==
    IF key.ok THEN PairOfParts(key, ParsePayload(key.payload)) ELSE NoPair

\* lines 24-27: any failure is a ValueError
ParsePair(line) == PairOfKey(ParseKey(line))

Unchanged(st) ==
    [key |-> st.key, A |-> st.A, B |-> st.B, out |-> <<>>, log |-> <<>>]

\* a plausible slip: Avals.clear(); Bvals.clear() left out
RestartedNoClear(key, f) ==
    [key |-> key, A |-> f.A, B |-> f.B, out |-> f.out, log |-> f.log]

\* a plausible slip: Bvals.clear() left out
RestartedKeepB(key, f) ==
    [key |-> key, A |-> <<>>, B |-> f.B, out |-> f.out, log |-> f.log]

\* current_key = (i, k); Avals.clear(); Bvals.clear(), after the flush f
Restarted(key, f) ==
    [key |-> key, A |-> <<>>, B |-> <<>>, out |-> f.out, log |-> f.log]

\* if current_key != (i, k): flush(...); current_key = (i, k); clear both
Restart(st, key) ==
    IF st.key # key
    THEN Restarted(key, FlushCall(st.key, st.A, st.B))
    ELSE Unchanged(st)

\* a plausible slip: `elif src == 'B'`, any other tag dropped
AccumulateKnownTags(st, src, j, v) ==
    IF src = <<"A">>
    THEN [st EXCEPT !.A = DictAdd(st.A, j, v)]
    ELSE IF src = <<"B">>
         THEN [st EXCEPT !.B = DictAdd(st.B, j, v)]
         ELSE st

\* if src == 'A': Avals[j] += v   else: Bvals[j] += v
Accumulate(st, src, j, v) ==
    IF src = <<"A">>
    THEN [st EXCEPT !.A = DictAdd(st.A, j, v)]
    ELSE [st EXCEPT !.B = DictAdd(st.B, j, v)]

Stay(st, pc) ==
    [pc |-> pc, key |-> st.key, A |-> st.A, B |-> st.B, out |-> <<>>,
     log |-> <<>>]

At(st, pc) ==
    [pc |-> pc, key |-> st.key, A |-> st.A, B |-> st.B, out |-> st.out,
     log |-> st.log]

\* lines 29-37, after the line was parsed into p
ReducePair(st, p) ==
    IF ~p.ok THEN Stay(st, "ValueError")
    ELSE At(Accumulate(Restart(st, <<p.i, p.k>>), p.src, p.j, p.v), "loop")

ReducePairLateParse(st, key, pl) ==
    IF ~key.ok THEN Stay(st, "ValueError")
    ELSE IF ~pl.ok THEN At(Restart(st, <<key.i, key.k>>), "ValueError")
    ELSE At(Accumulate(Restart(st, <<key.i, key.k>>), pl.src, pl.j, pl.v),
            "loop")

\* a plausible slip: the payload is parsed after the key-change block
ReduceLineLateParse(st, line) ==
    IF line = <<>> THEN Stay(st, "loop")
    ELSE ReducePairLateParse(st, ParseKey(line),
                             ParsePayload(ParseKey(line).payload))

\* if not line: continue; then lines 24-37
ReduceLine(st, line) ==
    IF line = <<>> THEN Stay(st, "loop") ELSE ReducePair(st, ParsePair(line))

\* one iteration of `for raw in sys.stdin`, from the state st
ReduceRecord(st, raw) == ReduceLine(st, Strip(raw))

ReducerState == [key |-> current_key, A |-> Avals, B |-> Bvals]

ReducerBecomes(res) ==
    /\ current_key' = res.key
    /\ Avals' = res.A
    /\ Bvals' = res.B
    /\ reducer_out' = reducer_out \o res.out
    /\ flushed' = flushed \o res.log

\* the reducer reads the line raw and runs one iteration on it
ReducerRead(raw) ==
    /\ reducer_pc = "loop"
    /\ ReducerBecomes(ReduceRecord(ReducerState, raw))
    /\ reducer_pc' = ReduceRecord(ReducerState, raw).pc

\* a plausible slip: the flush after the loop left out
FinalFlushMissing(key, A, B) ==
    [A |-> A, B |-> B, out |-> <<>>, log |-> <<>>]

\* line 39: flush(current_key, Avals, Bvals) after the loop
FinalFlush(key, A, B) == FlushCall(key, A, B)

ReducerEnds(f) ==
    /\ Avals' = f.A
    /\ Bvals' = f.B
    /\ reducer_out' = reducer_out \o f.out
    /\ flushed' = flushed \o f.log

\* end of sys.stdin
ReducerEOF ==
    /\ reducer_pc = "loop"
    /\ pending = {}
    /\ ReducerEnds(FinalFlush(current_key, Avals, Bvals))
    /\ reducer_pc' = "done"
    /\ UNCHANGED <<current_key, reducer_in>>
    /\ UNCHANGED mapperVars
    /\ UNCHANGED wordVars
    /\ UNCHANGED shuffleVars

----------------------------------------------------------------------------
(* WordCount reducer *)

NoWord == <<>>    \* current_word = None

\* print(f"{current_word}\t{current_count}")
WordOutLine(word, count) == EmitLine(word \o <<TAB>> \o FormatInt(count))

\* the state the iteration leaves and the lines it printed
WordState(word, count, out) == [word |-> word, count |-> count, out |-> out]

\* `continue`, from the blank-line test or from `except ValueError`
WordSkip(st) == WordState(st.word, st.count, <<>>)

\* a plausible slip: current_count = 0 left out of the word-change block
WordAddNoReset(st, cur, word, count) ==
    IF <<word>> # cur
    THEN WordState(<<word>>, st.count + count,
                   <<WordOutLine(cur[1], st.count)>>)
    ELSE WordState(cur, st.count + count, <<>>)

\* if word != current_word: print; current_word = word; current_count = 0
\* and then current_count += count, with cur the value of current_word
WordAdd(st, cur, word, count) ==
    IF <<word>> # cur
    THEN WordState(<<word>>, 0 + count, <<WordOutLine(cur[1], st.count)>>)
    ELSE WordState(cur, st.count + count, <<>>)

\* if current_word is None: current_word = word
WordFirst(st, word) == IF st.word = NoWord THEN <<word>> ELSE st.word

\* a plausible slip: a count that is not an integer is taken as 0
WordCountedLenient(st, word, count) ==
    IF count.ok
    THEN WordAdd(st, WordFirst(st, word), word, count.val)
    ELSE WordAdd(st, WordFirst(st, word), word, 0)

\* count = int(count_str), a ValueError skips the line
WordCounted(st, word, count) ==
    IF count.ok
    THEN WordAdd(st, WordFirst(st, word), word, count.val)
    ELSE WordSkip(st)

\* word, count_str = line.split("\t", 1): without a tab the unpacking raises
\* ValueError and the line is skipped
WordParts(st, parts) ==
    IF Len(parts) = 2
    THEN WordCounted(st, parts[1], ParseInt(parts[2]))
    ELSE WordSkip(st)

\* if not line: continue; then the try block and the fold
WordLine(st, line) ==
    IF line = <<>> THEN WordSkip(st) ELSE WordParts(st, Split(line, TAB, 1))

\* one iteration of `for raw in sys.stdin`, from the state st
WordRecord(st, raw) == WordLine(st, Strip(raw))

WordReducerState ==
    [word |-> current_word, count |-> current_count, out |-> <<>>]

WordBecomes(res) ==
    /\ current_word' = res.word
    /\ current_count' = res.count
    /\ word_out' = word_out \o res.out

\* the WordCount reducer reads the line raw and runs one iteration on it
WordRead(raw) ==
    /\ word_pc = "loop"
    /\ WordBecomes(WordRecord(WordReducerState, raw))
    /\ word_in' = Append(word_in, raw)
    /\ UNCHANGED word_pc

\* a plausible slip: the print after the loop left out
WordLastMissing(word, count) == <<>>

\* if current_word is not None: print(f"{current_word}\t{current_count}")
WordLast(word, count) ==
    IF word # NoWord THEN <<WordOutLine(word[1], count)>> ELSE <<>>

\* end of sys.stdin
WordEOF ==
    /\ word_pc = "loop"
    /\ word_out' = word_out \o WordLast(current_word, current_count)
    /\ word_pc' = "done"
    /\ UNCHANGED <<current_word, current_count, word_in>>
    /\ UNCHANGED mapperVars
    /\ UNCHANGED shuffleVars
    /\ UNCHANGED reducerVars

\* the WordCount reducer is not part of the run
WordIdle ==
    /\ current_word = NoWord
    /\ current_count = 0
    /\ word_in = <<>>
    /\ word_out = <<>>
    /\ word_pc = "off"

----------------------------------------------------------------------------
(* Input lines of the mapper *)

\* well-formed entries the mapper is run on, some in unusual but legal spelling
MapperEntries ==
    { MatrixEntry(<<"A">>, "A", 0, 1, 2),
      MatrixEntry(<<"a">>, "A", 1, 0, -1),
      MatrixEntry(<<"B">>, "B", 1, 0, 2),
      MatrixEntry(<<"b">>, "B", -1, 1, 1),
      [raw |-> <<" ">> \o Field4(<<"A">>, <<"+", "1">>, <<" ", "0">>,
                                  <<"3", ".", "0">>) \o <<NL>>,
       src |-> "A", row |-> 1, col |-> 0, val |-> 3] }

\* blank lines, comments, and lines whose field count is not 4
SkippedLines ==
    { <<>>,
      <<" ", TAB, NL>>,
      <<"#">> \o Field4(<<"A">>, <<"0">>, <<"0">>, <<"1">>) \o <<NL>>,
      <<" ", "#", "x", NL>>,
      Join(<<<<"A">>, <<"0">>, <<"1">>>>, COMMA) \o <<NL>>,
      Join(<<<<"B">>, <<"0">>, <<"1">>, <<"2">>, <<"x">>>>, COMMA) \o <<NL>>,
      <<"x", NL>> }

\* four fields, a NAME that is neither A nor B, numeric fields that parse
ForeignLines ==
    { Field4(<<"C">>, <<"0">>, <<"1">>, <<"2">>) \o <<NL>>,
      Field4(<<"A", "B">>, <<"0">>, <<"0">>, <<"1">>) \o <<NL>>,
      Field4(<<>>, <<"1">>, <<"0">>, <<"1">>) \o <<NL>> }

\* four fields, a NAME that is neither A nor B, a numeric field that does not parse
ForeignBadLines ==
    { Field4(<<"C">>, <<"x">>, <<"0">>, <<"1">>) \o <<NL>>,
      Field4(<<"x">>, <<"0">>, <<"0">>, <<>>) \o <<NL>> }

\* four fields, NAME A or B, a numeric field that does not parse
BadEntryLines ==
    { Field4(<<"A">>, <<"0">>, <<"0">>, <<"x">>) \o <<NL>>,
      Field4(<<"b">>, <<"1", ".", "0">>, <<"0">>, <<"1">>) \o <<NL>> }

MapperLines ==
    {e.raw : e \in MapperEntries} \cup SkippedLines \cup ForeignLines
        \cup ForeignBadLines \cup BadEntryLines

Dims == 1..MaxDim

InitReducerIdle ==
    /\ pending = {}
    /\ last_key = <<>>
    /\ reducer_in = <<>>
    /\ current_key = <<>>
    /\ Avals = <<>>
    /\ Bvals = <<>>
    /\ reducer_out = <<>>
    /\ reducer_pc = "idle"
    /\ flushed = <<>>
    /\ WordIdle

\* the mapper alone, on arbitrary input lines
InitMapper ==
    /\ MAX_I \in Dims
    /\ MAX_K \in Dims
    /\ environ = Environ(MAX_I, MAX_K)
    /\ shards = <<>>
    /\ mapper_in = <<>>
    /\ mapper_out = <<>>
    /\ mapper_pc = "loop"
    /\ InitReducerIdle

MapperLine ==
    /\ Len(mapper_in) < MaxLines
    /\ \E raw \in MapperLines : MapperRead(raw)
    /\ UNCHANGED shuffleVars
    /\ UNCHANGED reducerVars
    /\ UNCHANGED wordVars

NextMapper == MapperLine \/ MapperEOF

SpecMapper == InitMapper /\ [][NextMapper]_vars

----------------------------------------------------------------------------
(* The mapper from process start, under any environment *)

\* texts a setting may hold, with what int() makes of them
EnvSettings ==
    { [text |-> <<"2">>, ok |-> TRUE, val |-> 2],
      [text |-> <<" ", "+", "1">>, ok |-> TRUE, val |-> 1],
      [text |-> <<"0">>, ok |-> TRUE, val |-> 0],
      [text |-> <<>>, ok |-> FALSE, val |-> 0],
      [text |-> <<"2", ".", "0">>, ok |-> FALSE, val |-> 0] }

\* a setting is missing (<<>>) or present with one of the texts
EnvChoices == {<<>>} \cup {<<e.text>> : e \in EnvSettings}

EnvOf(i, k) ==
    [name \in (IF i = <<>> THEN {} ELSE {"MAX_I"})
                  \cup (IF k = <<>> THEN {} ELSE {"MAX_K"}) |->
        IF name = "MAX_I" THEN i[1] ELSE k[1]]

InitConfig ==
    /\ \E i \in EnvChoices : \E k \in EnvChoices : environ = EnvOf(i, k)
    /\ MAX_I = 0
    /\ MAX_K = 0
    /\ mapper_in = <<>>
    /\ mapper_out = <<>>
    /\ mapper_pc = "start"
    /\ shards = <<>>
    /\ InitReducerIdle

NextConfig == MapperConfig \/ MapperLine \/ MapperEOF

SpecConfig == InitConfig /\ [][NextConfig]_vars

----------------------------------------------------------------------------
(* The reducer alone, fed arbitrary lines *)

\* I,K<TAB>SRC,J,VALUE as the mapper writes it, with its meaning
Pair(i, k, src, j, v) ==
    [raw |-> PairLine(i, k, <<src>>, j, v),
     key |-> <<i, k>>, src |-> src, j |-> j, v |-> v]

\* well-formed pairs the reducer is fed, one in unusual but legal spelling
ReducerPairs ==
    { Pair(0, 0, "A", 0, 1),
      Pair(0, 0, "A", 1, 1),
      Pair(0, 0, "B", 0, 1),
      Pair(0, 0, "B", 1, -1),
      Pair(0, 1, "B", 0, 2),
      [raw |-> <<" ", "0", COMMA, " ", "1", TAB, "A", COMMA, "+", "0", COMMA,
                 "3", NL>>,
       key |-> <<0, 1>>, src |-> "A", j |-> 0, v |-> 3] }

BlankLines == { <<NL>> }

KeyText(i, k) == FormatInt(i) \o <<COMMA>> \o FormatInt(k)

\* the intermediate lines section 6 calls fatal
BadPairLines ==
    { KeyText(0, 0) \o <<" ", "A", COMMA, "0", COMMA, "1", NL>>,
      <<"0", TAB, "A", COMMA, "0", COMMA, "1", NL>>,
      KeyText(0, 0) \o <<COMMA, "0", TAB, "A", COMMA, "0", COMMA, "1", NL>>,
      <<"0", COMMA, "x", TAB, "A", COMMA, "0", COMMA, "1", NL>>,
      KeyText(0, 0) \o <<TAB, "A", COMMA, "0", NL>>,
      KeyText(0, 0) \o <<TAB, "A", COMMA, "0", COMMA, "1", COMMA, "2", NL>>,
      KeyText(0, 1) \o <<TAB, "A", COMMA, "x", COMMA, "1", NL>>,
      KeyText(0, 1) \o <<TAB, "B", COMMA, "0", COMMA, "x", NL>> }

ReducerLines == {p.raw : p \in ReducerPairs} \cup BlankLines \cup BadPairLines

InitReducer ==
    /\ MAX_I = 1
    /\ MAX_K = 1
    /\ environ = Environ(MAX_I, MAX_K)
    /\ shards = <<>>
    /\ mapper_in = <<>>
    /\ mapper_out = <<>>
    /\ mapper_pc = "off"
    /\ pending = {}
    /\ last_key = <<>>
    /\ reducer_in = <<>>
    /\ current_key = NoKey
    /\ Avals = <<>>
    /\ Bvals = <<>>
    /\ reducer_out = <<>>
    /\ reducer_pc = "loop"
    /\ flushed = <<>>
    /\ WordIdle

ReducerLine ==
    /\ Len(reducer_in) < MaxFeed
    /\ \E raw \in ReducerLines :
          /\ ReducerRead(raw)
          /\ reducer_in' = Append(reducer_in, raw)
    /\ UNCHANGED mapperVars
    /\ UNCHANGED wordVars
    /\ UNCHANGED shuffleVars

NextReducer == ReducerLine \/ ReducerEOF

SpecReducer == InitReducer /\ [][NextReducer]_vars

----------------------------------------------------------------------------
(* The reducer alone, fed pairs among which are values whose sums round *)

\* well-formed pairs in a fixed order, 1e17 and -1e17 among the values
RoundingTable ==
    << Pair(0, 0, "A", 0, E17),
       Pair(0, 0, "A", 0, 0 - E17),
       Pair(0, 0, "A", 0, 1),
       Pair(0, 0, "A", 1, 2),
       Pair(0, 0, "B", 0, 1),
       Pair(0, 0, "B", 1, 1),
       Pair(0, 1, "A", 0, 1),
       Pair(0, 1, "B", 0, 1) >>

RoundingPairs == {RoundingTable[n] : n \in 1..Len(RoundingTable)}

RoundingLine ==
    /\ Len(reducer_in) < MaxFeed
    /\ \E p \in RoundingPairs :
          /\ ReducerRead(p.raw)
          /\ reducer_in' = Append(reducer_in, p.raw)
    /\ UNCHANGED mapperVars
    /\ UNCHANGED wordVars
    /\ UNCHANGED shuffleVars

NextRounding == RoundingLine \/ ReducerEOF

SpecRounding == InitReducer /\ [][NextRounding]_vars

----------------------------------------------------------------------------
(* The reducer alone, fed pairs whose source tag is not always A or B *)

\* I,K<TAB>TAG,J,VALUE for a tag of any length, with its meaning
Tagged(i, k, tag, j, v) ==
    [raw |-> PairLine(i, k, tag, j, v),
     key |-> <<i, k>>, tag |-> tag, j |-> j, v |-> v]

\* pairs in a fixed order: tags A and B, lowercase letters, an unknown
\* letter, `A` after a space and the empty tag
TagTable ==
    << Tagged(0, 0, <<"A">>, 0, 1),
       Tagged(0, 0, <<"A">>, 1, 1),
       Tagged(0, 0, <<"B">>, 0, 1),
       Tagged(0, 0, <<"a">>, 0, 2),
       Tagged(0, 0, <<"C">>, 1, 4),
       Tagged(0, 0, <<" ", "A">>, 0, 8),
       Tagged(0, 0, <<>>, 1, 16),
       Tagged(0, 1, <<"A">>, 0, 1),
       Tagged(0, 1, <<"b">>, 0, 1) >>

TagPairs == {TagTable[n] : n \in 1..Len(TagTable)}

TagLine ==
    /\ Len(reducer_in) < MaxFeed
    /\ \E p \in TagPairs :
          /\ ReducerRead(p.raw)
          /\ reducer_in' = Append(reducer_in, p.raw)
    /\ UNCHANGED mapperVars
    /\ UNCHANGED wordVars
    /\ UNCHANGED shuffleVars

NextTags == TagLine \/ ReducerEOF

SpecTags == InitReducer /\ [][NextTags]_vars

----------------------------------------------------------------------------
(* The WordCount reducer alone, fed arbitrary lines *)

\* WORD<TAB>COUNT as the WordCount mapper and a combiner write it, with its
\* meaning; the field key is the word
Counted(word, count) ==
    [raw |-> word \o <<TAB>> \o FormatInt(count) \o <<NL>>,
     key |-> word, count |-> count]

\* well-formed lines the reducer is fed, two in unusual but legal spelling
WordPairs ==
    { Counted(<<"a">>, 1),
      Counted(<<"a">>, 2),
      Counted(<<"a">>, -1),
      Counted(<<"b">>, 1),
      Counted(<<"A">>, 1),
      [raw |-> <<" ", "a", TAB, " ", "+", "1", " ", NL>>,
       key |-> <<"a">>, count |-> 1],
      [raw |-> <<"a", " ", "b", TAB, "0", "2", NL>>,
       key |-> <<"a", " ", "b">>, count |-> 2] }

\* blank lines, lines without a tab (one of them after stripping), lines whose
\* count is not an integer
WordBadLines ==
    { <<NL>>,
      <<" ", TAB, NL>>,
      <<"a", NL>>,
      <<"b", " ", "1", NL>>,
      <<TAB, "1", NL>>,
      <<"a", TAB, NL>>,
      <<"a", TAB, "x", NL>>,
      <<"b", TAB, "1", ".", "0", NL>>,
      <<"b", TAB, "1", TAB, "2", NL>> }

WordLines == {p.raw : p \in WordPairs} \cup WordBadLines

InitWords ==
    /\ MAX_I = 1
    /\ MAX_K = 1
    /\ environ = Environ(MAX_I, MAX_K)
    /\ shards = <<>>
    /\ mapper_in = <<>>
    /\ mapper_out = <<>>
    /\ mapper_pc = "off"
    /\ pending = {}
    /\ last_key = <<>>
    /\ reducer_in = <<>>
    /\ current_key = NoKey
    /\ Avals = <<>>
    /\ Bvals = <<>>
    /\ reducer_out = <<>>
    /\ reducer_pc = "off"
    /\ flushed = <<>>
    /\ current_word = NoWord
    /\ current_count = 0
    /\ word_in = <<>>
    /\ word_out = <<>>
    /\ word_pc = "loop"

WordReads ==
    /\ Len(word_in) < MaxFeed
    /\ \E raw \in WordLines : WordRead(raw)
    /\ UNCHANGED mapperVars
    /\ UNCHANGED shuffleVars
    /\ UNCHANGED reducerVars

NextWords == WordReads \/ WordEOF

SpecWords == InitWords /\ [][NextWords]_vars

----------------------------------------------------------------------------
(* The job: mapper, shuffle, reducer *)

\* entries of A and B the job is run on, duplicates of a cell included
JobEntries ==
    { MatrixEntry(<<"A">>, "A", 0, 0, 1),
      MatrixEntry(<<"A">>, "A", 0, 0, -1),
      MatrixEntry(<<"A">>, "A", 0, 1, 2),
      MatrixEntry(<<"A">>, "A", 1, 0, 3),
      MatrixEntry(<<"B">>, "B", 0, 0, 2),
      MatrixEntry(<<"B">>, "B", 1, 0, -1),
      MatrixEntry(<<"B">>, "B", 0, 1, 1) }

OnExample ==
    /\ MAX_I = 2 /\ MAX_K = 2
    /\ Len(mapper_in) < Len(ExampleLines)
    /\ mapper_in = SubSeq(ExampleLines, 1, Len(mapper_in))

Init ==
    /\ MAX_I \in Dims
    /\ MAX_K \in Dims
    /\ environ = Environ(MAX_I, MAX_K)
    /\ shards = <<>>
    /\ mapper_in = <<>>
    /\ mapper_out = <<>>
    /\ mapper_pc = "loop"
    /\ InitReducerIdle

JobLines == {e.raw : e \in JobEntries}

\* the mapper reads one entry: any of JobEntries while the input is short, or
\* the next line of the worked example
MapperEntry ==
    /\ \E raw \in JobLines \cup {ExampleLines[n] : n \in 1..Len(ExampleLines)} :
          /\ \/ Len(mapper_in) < MaxLines /\ raw \in JobLines
             \/ OnExample /\ raw = ExampleLines[Len(mapper_in) + 1]
          /\ MapperRead(raw)
    /\ UNCHANGED shuffleVars
    /\ UNCHANGED reducerVars
    /\ UNCHANGED wordVars

\* the engine's key of an intermediate line: the text before the first tab
ShuffleKey(line) == Split(line, TAB, 1)[1]

\* the map phase is over: the engine takes the mapper's output and starts the
\* reducer
JobShuffle ==
    /\ mapper_pc = "done"
    /\ reducer_pc = "idle"
    /\ pending' = {[n |-> n, key |-> ShuffleKey(mapper_out[n])] :
                        n \in 1..Len(mapper_out)}
    /\ reducer_pc' = "loop"
    /\ current_key' = NoKey
    /\ UNCHANGED <<last_key, reducer_in, Avals, Bvals, reducer_out, flushed>>
    /\ UNCHANGED mapperVars
    /\ UNCHANGED wordVars

\* the engine hands the reducer one more line, keeping equal keys contiguous:
\* a line of a new key only when no line of the last key is left; the order of
\* the groups and the order inside a group are arbitrary
ShuffleDeliver ==
    /\ \E p \in pending :
          /\ \/ p.key = last_key
             \/ \A q \in pending : q.key # last_key
          /\ ReducerRead(mapper_out[p.n])
          /\ pending' = pending \ {p}
          /\ last_key' = p.key
    /\ UNCHANGED reducer_in
    /\ UNCHANGED mapperVars
    /\ UNCHANGED wordVars

Next == MapperEntry \/ MapperEOF \/ JobShuffle \/ ShuffleDeliver \/ ReducerEOF

Spec == Init /\ [][Next]_vars

----------------------------------------------------------------------------
(* The job on entries whose rows and columns may lie outside the result *)

\* entries of A and B: inside the result, and with a negative or too large
\* row (A) or column (B)
OutsideEntries ==
    { MatrixEntry(<<"A">>, "A", 0, 0, 1),
      MatrixEntry(<<"A">>, "A", -1, 0, 2),
      MatrixEntry(<<"A">>, "A", 5, 0, 3),
      MatrixEntry(<<"B">>, "B", 0, 0, 1),
      MatrixEntry(<<"B">>, "B", 0, -1, 2),
      MatrixEntry(<<"B">>, "B", 0, 5, 3) }

\* the mapper reads one of the entries
MapperOutsideEntry ==
    /\ Len(mapper_in) < MaxLines
    /\ \E e \in OutsideEntries : MapperRead(e.raw)
    /\ UNCHANGED shuffleVars
    /\ UNCHANGED reducerVars
    /\ UNCHANGED wordVars

NextOutside ==
    MapperOutsideEntry \/ MapperEOF \/ JobShuffle \/ ShuffleDeliver
        \/ ReducerEOF

SpecOutside == Init /\ [][NextOutside]_vars

----------------------------------------------------------------------------
(* The job with the input split over mapper instances that run side by side *)

MaxShards == 2     \* mapper instances

\* entries of A and B given to the instances
ShardEntries ==
    { MatrixEntry(<<"A">>, "A", 0, 0, 1),
      MatrixEntry(<<"A">>, "A", 1, 0, 3),
      MatrixEntry(<<"B">>, "B", 0, 0, 2),
      MatrixEntry(<<"B">>, "B", 0, 1, 1) }

\* an instance past its configuration lines, nothing read yet
ShardStart == [todo |-> <<>>, pc |-> "loop"]

InitSharded ==
    /\ MAX_I \in Dims
    /\ MAX_K \in Dims
    /\ environ = Environ(MAX_I, MAX_K)
    /\ mapper_in = <<>>
    /\ mapper_out = <<>>
    /\ mapper_pc = "loop"
    /\ shards = [m \in 1..MaxShards |-> ShardStart]
    /\ InitReducerIdle

\* an instance after one iteration: the lines the iteration prints are its to
\* write, in order
ShardAfter(res) == [todo |-> res.out, pc |-> res.pc]

\* instance m reads the next record of its shard; the record is one more of
\* the job's input
ShardRead(m) ==
    /\ shards[m].pc = "loop"
    /\ shards[m].todo = <<>>
    /\ Len(mapper_in) < MaxLines
    /\ \E e \in ShardEntries :
          /\ shards' = [shards EXCEPT
                           ![m] = ShardAfter(MapRecord(e.raw, MAX_I, MAX_K))]
          /\ mapper_in' = Append(mapper_in, e.raw)
    /\ UNCHANGED <<environ, MAX_I, MAX_K, mapper_out, mapper_pc>>
    /\ UNCHANGED shuffleVars
    /\ UNCHANGED reducerVars
    /\ UNCHANGED wordVars

\* instance m writes its next line; the engine collects the instances' lines
\* in the order they are written
ShardEmit(m) ==
    /\ shards[m].todo # <<>>
    /\ mapper_out' = Append(mapper_out, Head(shards[m].todo))
    /\ shards' = [shards EXCEPT ![m].todo = Tail(shards[m].todo)]
    /\ UNCHANGED <<environ, MAX_I, MAX_K, mapper_in, mapper_pc>>
    /\ UNCHANGED shuffleVars
    /\ UNCHANGED reducerVars
    /\ UNCHANGED wordVars

\* end of instance m's shard; the map phase is over with the last instance
ShardEOF(m) ==
    /\ shards[m].pc = "loop"
    /\ shards[m].todo = <<>>
    /\ shards' = [shards EXCEPT ![m].pc = "done"]
    /\ mapper_pc' = IF \A o \in 1..MaxShards : o = m \/ shards[o].pc = "done"
                     THEN "done" ELSE mapper_pc
    /\ UNCHANGED <<environ, MAX_I, MAX_K, mapper_in, mapper_out>>
    /\ UNCHANGED shuffleVars
    /\ UNCHANGED reducerVars
    /\ UNCHANGED wordVars

ShardsRead == \E m \in 1..MaxShards : ShardRead(m)

ShardsEmit == \E m \in 1..MaxShards : ShardEmit(m)

ShardsEOF == \E m \in 1..MaxShards : ShardEOF(m)

NextSharded ==
    ShardsRead \/ ShardsEmit \/ ShardsEOF \/ JobShuffle \/ ShuffleDeliver
        \/ ReducerEOF

SpecSharded == InitSharded /\ [][NextSharded]_vars

----------------------------------------------------------------------------
(* Vocabulary of the properties *)

Without(lines, S) == SelectSeq(lines, LAMBDA raw : raw \notin S)

RECURSIVE Flatten(_)
Flatten(seqs) == IF seqs = <<>> THEN <<>> ELSE Head(seqs) \o Flatten(Tail(seqs))

RECURSIVE SumOver(_, _)
SumOver(S, f) ==
    IF S = {} THEN 0
    ELSE LET x == CHOOSE y \in S : TRUE IN f[x] + SumOver(S \ {x}, f)

\* this step is the mapper reading the line raw
MapperTook(raw) == mapper_in' = Append(mapper_in, raw)

\* this step is the directly fed reducer reading the line raw
ReducerTook(raw) == reducer_in' = Append(reducer_in, raw)

\* how the consumer of an intermediate line reads it
Decode(line) == ParsePair(Strip(line))

Fragment(i, k, src, j, v) ==
    [ok |-> TRUE, i |-> i, k |-> k, src |-> <<src>>, j |-> j, v |-> v]

\* this step appended exactly count lines to the mapper's output
MapperEmitted(count) ==
    /\ Len(mapper_out') = Len(mapper_out) + count
    /\ SubSeq(mapper_out', 1, Len(mapper_out)) = mapper_out

\* the mapper stands where a run of the loop over lines would leave it
MapperAgrees(lines) ==
    LET ref == MapAll(lines, MAX_I, MAX_K)
    IN  /\ mapper_out = ref.out
        /\ (mapper_pc = "ValueError") = (ref.pc = "ValueError")

MapperSkips(raw) ==
    MapperTook(raw) => mapper_out' = mapper_out /\ mapper_pc' = "loop"

----------------------------------------------------------------------------
(* C2: for every well-formed A-entry (row i, col j, value v) the mapper emits *)
(* exactly MAX_K pairs and nothing else: key (i,k), fragment (A, j, v) for    *)
(* k = 0..MAX_K-1 in increasing k, and it keeps running.                      *)
C2_AFanOut ==
    [][\A e \in MapperEntries :
          (e.src = "A" /\ MapperTook(e.raw)) =>
             /\ mapper_pc' = "loop"
             /\ MapperEmitted(MAX_K)
             /\ \A k \in 0..(MAX_K - 1) :
                   Decode(mapper_out'[Len(mapper_out) + k + 1])
                      = Fragment(e.row, k, "A", e.col, e.val)]_vars

\* an A-entry has been expanded over two output columns of a one-row result
C2_Witness ==
    \E e \in MapperEntries :
       /\ e.src = "A" /\ mapper_in = <<e.raw>>
       /\ MAX_K = 2 /\ MAX_I = 1 /\ Len(mapper_out) = 2

(* C3: for every well-formed B-entry (row j, col k, value v) the mapper emits *)
(* exactly MAX_I pairs and nothing else: key (i,k), fragment (B, j, v) for    *)
(* i = 0..MAX_I-1 in increasing i, and it keeps running.                      *)
C3_BFanOut ==
    [][\A e \in MapperEntries :
          (e.src = "B" /\ MapperTook(e.raw)) =>
             /\ mapper_pc' = "loop"
             /\ MapperEmitted(MAX_I)
             /\ \A i \in 0..(MAX_I - 1) :
                   Decode(mapper_out'[Len(mapper_out) + i + 1])
                      = Fragment(i, e.col, "B", e.row, e.val)]_vars

\* a B-entry has been expanded over two output rows of a one-column result
C3_Witness ==
    \E e \in MapperEntries :
       /\ e.src = "B" /\ mapper_in = <<e.raw>>
       /\ MAX_I = 2 /\ MAX_K = 1 /\ Len(mapper_out) = 2

(* C4 as claimed: every 4-field line whose NAME is neither A nor B, whatever  *)
(* its ROW, COL and VALUE fields contain, emits nothing and does not end the  *)
(* mapper.                                                                    *)
C4_AnyForeignLineSkipped ==
    [][\A raw \in ForeignLines \cup ForeignBadLines : MapperSkips(raw)]_vars

(* C4 as amended: a 4-field line whose NAME is neither A nor B and whose ROW  *)
(* and COL parse as integers and VALUE as a float emits nothing, does not end *)
(* the mapper, and the mapper's output and fate are those of the same stream  *)
(* without such lines; when one of ROW, COL, VALUE does not parse the mapper  *)
(* ends at that line with a ValueError, having emitted nothing for it.        *)
C4_NumericForeignLineSkipped ==
    /\ [] MapperAgrees(Without(mapper_in, ForeignLines))
    /\ [][\A raw \in ForeignLines : MapperSkips(raw)]_vars
    /\ [][\A raw \in ForeignBadLines :
             MapperTook(raw) =>
                mapper_out' = mapper_out /\ mapper_pc' = "ValueError"]_vars

\* a foreign line was read, and the entry after it was expanded
C4_Witness ==
    \E f \in ForeignLines : \E e \in MapperEntries :
       /\ mapper_in = <<f, e.raw>>
       /\ mapper_pc = "loop" /\ Len(mapper_out) > 0

(* C5: a blank line, a line starting with '#', or a line whose field count is *)
(* not 4 emits nothing and does not end the mapper, and the mapper's output   *)
(* and fate for any stream are those of the stream without such lines.        *)
C5_SkippedLeaveNoTrace ==
    /\ [] MapperAgrees(Without(mapper_in, SkippedLines))
    /\ [][\A raw \in SkippedLines : MapperSkips(raw)]_vars

\* skipped lines before and after an entry that was expanded
C5_Witness ==
    \E s1 \in SkippedLines : \E s2 \in SkippedLines : \E e \in MapperEntries :
       /\ mapper_in = <<s1, e.raw, s2>>
       /\ Len(SplitAll(Strip(s1), COMMA)) = 3 /\ Strip(s2) = <<>>
       /\ mapper_pc = "loop" /\ Len(mapper_out) > 0

----------------------------------------------------------------------------
(* What the reducer was fed, as pairs and as maximal runs of one key *)

PairOf(raw) == CHOOSE p \in ReducerPairs : p.raw = raw

\* the well-formed pairs among the lines fed so far, in order
PairsFed ==
    LET good == SelectSeq(reducer_in,
                          LAMBDA raw : raw \in {p.raw : p \in ReducerPairs})
    IN  [n \in 1..Len(good) |-> PairOf(good[n])]

\* the maximal contiguous runs of pairs with the same key, in stream order
RECURSIVE Runs(_)
Runs(ps) ==
    IF ps = <<>> THEN <<>>
    ELSE LET rest == Runs(Tail(ps))
         IN  IF rest # <<>> /\ rest[1][1].key = Head(ps).key
             THEN << <<Head(ps)>> \o rest[1] >> \o Tail(rest)
             ELSE << <<Head(ps)>> >> \o rest

\* the runs whose flush is due: all of them once the input has ended, all but
\* the one still being accumulated before
RunsDue ==
    LET runs == Runs(PairsFed)
    IN  IF reducer_pc = "done" THEN runs ELSE SubSeq(runs, 1, Len(runs) - 1)

RunIdx(run, src) == {run[n].j : n \in {m \in 1..Len(run) : run[m].src = src}}

RECURSIVE RunSum(_, _, _)
RunSum(run, src, j) ==
    IF run = <<>> THEN 0
    ELSE (IF Head(run).src = src /\ Head(run).j = j THEN Head(run).v ELSE 0)
         + RunSum(Tail(run), src, j)

RunCount(run, src, j) ==
    Cardinality({n \in 1..Len(run) : run[n].src = src /\ run[n].j = j})

\* inner index -> sum of the run's values of one source
RunMap(run, src) == [j \in RunIdx(run, src) |-> RunSum(run, src, j)]

\* sum over the inner indices both mappings have of the products
Dot(A, B) ==
    LET both == DOMAIN A \cap DOMAIN B
    IN  SumOver(both, [j \in both |-> A[j] * B[j]])

\* the lines a group with these mappings must produce
Triple(key, A, B) ==
    IF Dot(A, B) # 0 THEN <<OutLine(key[1], key[2], Dot(A, B))>> ELSE <<>>

RunOut(run) == Triple(run[1].key, RunMap(run, "A"), RunMap(run, "B"))

FlushedOut == Flatten([n \in 1..Len(flushed) |-> flushed[n].out])

Grouped(ps) ==
    LET runs == Runs(ps)
    IN  \A m, n \in 1..Len(runs) : m # n => runs[m][1].key # runs[n][1].key

----------------------------------------------------------------------------
(* C6: over any stream of well-formed pairs (blank lines allowed), flush runs *)
(* exactly once per maximal contiguous run of one key, in stream order, with  *)
(* accumulators built from that run only; the last run is flushed once, after *)
(* end of input; with no pair received nothing is flushed or printed; each    *)
(* flush prints at most one line, so grouped input gives at most one line per *)
(* key.                                                                       *)
C6_FlushDiscipline ==
    /\ Len(flushed) = Len(RunsDue)
    /\ \A n \in 1..Len(flushed) :
          n <= Len(RunsDue) =>
             /\ flushed[n].key = RunsDue[n][1].key
             /\ flushed[n].A = RunMap(RunsDue[n], "A")
             /\ flushed[n].B = RunMap(RunsDue[n], "B")
             /\ Len(flushed[n].out) <= 1
    /\ reducer_out = FlushedOut
    /\ PairsFed = <<>> => flushed = <<>> /\ reducer_out = <<>>
    /\ Grouped(PairsFed) =>
          \A m, n \in 1..Len(flushed) :
             m # n => flushed[m].key # flushed[n].key

\* a key came back after another key: three runs, three flushes, the last one
\* after end of input
C6_Witness ==
    /\ reducer_pc = "done"
    /\ Len(flushed) = 3
    /\ flushed[1].key = flushed[3].key
    /\ flushed[1].key # flushed[2].key

(* C7: when a group holds several fragments with the same key, source and     *)
(* inner index, the accumulator at that index holds the sum of their values   *)
(* when the group is flushed, and the line printed is the dot product of the  *)
(* summed accumulators.                                                       *)
C7_DuplicatesSum ==
    \A n \in 1..Len(flushed) :
       n <= Len(RunsDue) =>
          LET run == RunsDue[n]
              dupA == {j \in RunIdx(run, "A") : RunCount(run, "A", j) > 1}
              dupB == {j \in RunIdx(run, "B") : RunCount(run, "B", j) > 1}
          IN  /\ \A j \in dupA :
                    /\ j \in DOMAIN flushed[n].A
                    /\ flushed[n].A[j] = RunSum(run, "A", j)
              /\ \A j \in dupB :
                    /\ j \in DOMAIN flushed[n].B
                    /\ flushed[n].B[j] = RunSum(run, "B", j)
              /\ dupA \cup dupB # {} => flushed[n].out = RunOut(run)

\* A(.,0) arrived twice with value 1 and B(0,.) once: the line carries 2
C7_Witness ==
    /\ reducer_pc = "done"
    /\ Len(PairsFed) = 3
    /\ Len(flushed) = 1
    /\ flushed[1].A = [j \in {0} |-> 2]
    /\ flushed[1].B = [j \in {0} |-> 1]
    /\ reducer_out = <<OutLine(0, 0, 2)>>

(* C8: when a group's A and B accumulators have no inner index in common      *)
(* (groups with only A or only B fragments included) the flush prints nothing *)
(* and leaves both accumulators as they were: the lookups add no entry.       *)
C8_Sparsity ==
    [][Len(flushed') = Len(flushed) + 1 =>
          LET f == flushed'[Len(flushed')]
          IN  DOMAIN f.A \cap DOMAIN f.B = {} =>
                 /\ f.out = <<>>
                 /\ reducer_out' = reducer_out
                 /\ f.A2 = f.A /\ f.B2 = f.B
                 /\ reducer_pc' = "done" =>
                       AsMap(Avals') = f.A /\ AsMap(Bvals') = f.B]_vars

\* a group with A and B fragments at different inner indices was flushed at
\* end of input and printed nothing
C8_Witness ==
    /\ reducer_pc = "done"
    /\ reducer_out = <<>>
    /\ \E n \in 1..Len(flushed) :
          /\ DOMAIN flushed[n].A # {} /\ DOMAIN flushed[n].B # {}
          /\ DOMAIN flushed[n].A \cap DOMAIN flushed[n].B = {}

(* C9: a flush prints the line (key.i, key.k, total) if and only if total,    *)
(* the sum over the inner indices in both accumulators of AccA[j]*AccB[j], is *)
(* nonzero: nonzero products that cancel print nothing, a nonzero total       *)
(* prints exactly one line with that total and the group's key, key (0,0)     *)
(* included; the reducer's output is these lines and nothing else.            *)
C9_ZeroSuppression ==
    /\ \A n \in 1..Len(flushed) :
          flushed[n].out = Triple(flushed[n].key, flushed[n].A, flushed[n].B)
    /\ reducer_out = FlushedOut

\* 1*1 + 1*(-1) = 0: two nonzero products cancel and nothing is printed
C9_Witness ==
    /\ reducer_pc = "done"
    /\ reducer_out = <<>>
    /\ \E n \in 1..Len(flushed) :
          /\ flushed[n].key = <<0, 0>>
          /\ flushed[n].A = [j \in {0, 1} |-> 1]
          /\ flushed[n].B = [j \in {0, 1} |-> IF j = 0 THEN 1 ELSE -1]

(* C10: a non-blank line with no tab, a key that is not two integers, a       *)
(* payload that is not 3 fields, or an unparseable inner index or value ends  *)
(* the run at that line: the output is the lines of the groups completed      *)
(* before it, the group active at that moment is never flushed (whatever key  *)
(* the bad line carries), and no later line is processed.                     *)
C10_FatalParse ==
    /\ [](reducer_pc = "ValueError" =>
             /\ reducer_in[Len(reducer_in)] \in BadPairLines
             /\ Len(flushed) = Len(RunsDue)
             /\ reducer_out
                   = Flatten([n \in 1..Len(RunsDue) |-> RunOut(RunsDue[n])]))
    /\ [][\A raw \in BadPairLines :
             ReducerTook(raw) =>
                /\ reducer_pc' = "ValueError"
                /\ reducer_out' = reducer_out
                /\ flushed' = flushed]_vars
    /\ [][reducer_pc # "ValueError"]_vars

\* key (0,0) was active with a nonzero product when a bad line of key (0,1)
\* arrived: the run ended and (0,0) was never printed
C10_Witness ==
    /\ reducer_pc = "ValueError"
    /\ Len(reducer_in) = 3
    /\ reducer_in[3] = KeyText(0, 1) \o <<TAB, "A", COMMA, "x", COMMA, "1", NL>>
    /\ current_key = <<0, 0>>
    /\ AsMap(Avals) = [j \in {0} |-> 1]
    /\ AsMap(Bvals) = [j \in {0} |-> 1]
    /\ reducer_out = <<>>

----------------------------------------------------------------------------
(* What the job was given, as matrix entries *)

EntryOf(raw) ==
    CHOOSE e \in JobEntries \cup {ExampleEntries[n] : n \in 1..Len(ExampleEntries)} :
       e.raw = raw

EntriesRead == [n \in 1..Len(mapper_in) |-> EntryOf(mapper_in[n])]

\* the sum of the values given for cell (row, col) of one matrix
RECURSIVE EntrySum(_, _, _, _)
EntrySum(es, src, row, col) ==
    IF es = <<>> THEN 0
    ELSE (IF Head(es).src = src /\ Head(es).row = row /\ Head(es).col = col
          THEN Head(es).val ELSE 0)
         + EntrySum(Tail(es), src, row, col)

InnerIndices(es) ==
    {es[n].col : n \in {m \in 1..Len(es) : es[m].src = "A"}}
       \cup {es[n].row : n \in {m \in 1..Len(es) : es[m].src = "B"}}

\* cell (i, k) of the product of the summed matrices
ProductCell(es, i, k) ==
    LET J == InnerIndices(es)
    IN  SumOver(J, [j \in J |-> EntrySum(es, "A", i, j) * EntrySum(es, "B", j, k)])

(* C1: for every input of A and B entries (duplicates of a cell allowed) and  *)
(* positive MAX_I, MAX_K, mapper, grouping and reducer print, for each cell   *)
(* (i,k) of the MAX_I x MAX_K result, exactly one line (i,k,t) when           *)
(* t = sum over j of (sum of A values at (i,j)) * (sum of B values at (j,k))  *)
(* is nonzero and no line otherwise, and nothing else; A = [[1,2],[3,4]],     *)
(* B = [[5,6],[7,8]] gives exactly (0,0,19), (0,1,22), (1,0,43), (1,1,50).    *)
C1_EndToEnd ==
    reducer_pc = "done" =>
       LET es == EntriesRead
           cells == {c \in (0..(MAX_I - 1)) \X (0..(MAX_K - 1)) :
                        ProductCell(es, c[1], c[2]) # 0}
       IN  /\ Len(reducer_out) = Cardinality(cells)
           /\ \A c \in cells :
                 \E n \in 1..Len(reducer_out) :
                    reducer_out[n]
                       = OutLine(c[1], c[2], ProductCell(es, c[1], c[2]))
           /\ mapper_in = ExampleLines =>
                 {reducer_out[n] : n \in 1..Len(reducer_out)}
                    = {OutLine(0, 0, 19), OutLine(0, 1, 22),
                       OutLine(1, 0, 43), OutLine(1, 1, 50)}

\* the worked example has run to the end and printed its four lines
C1_Witness ==
    /\ reducer_pc = "done"
    /\ mapper_in = ExampleLines
    /\ Len(reducer_out) = 4

\* duplicates of A(0,0) were summed before the product with B(0,0)
C1_DuplicateCase ==
    /\ reducer_pc = "done"
    /\ Len(mapper_in) = 3
    /\ EntrySum(EntriesRead, "A", 0, 0) = 2
    /\ Len(reducer_out) = 1

----------------------------------------------------------------------------
(* What the environment means: the value int() gives each setting *)

EnvMeaning(name) ==
    IF name \notin DOMAIN environ THEN [ok |-> FALSE, val |-> 0]
    ELSE LET e == CHOOSE x \in EnvSettings : x.text = environ[name]
         IN  [ok |-> e.ok, val |-> e.val]

EnvGood == EnvMeaning("MAX_I").ok /\ EnvMeaning("MAX_K").ok

MapperFailed == mapper_pc \in {"KeyError", "ValueError"}

(* C11: when MAX_I or MAX_K is missing or is not an integer the mapper ends   *)
(* at the configuration lines, having read no record and printed no pair; a   *)
(* run that has read a record has both bounds set to the integers the         *)
(* environment gives, and once the configuration lines are passed the bounds  *)
(* never change.                                                              *)
C11_ConfigFirst ==
    /\ [](~EnvGood =>
             /\ mapper_in = <<>> /\ mapper_out = <<>>
             /\ mapper_pc = "start" \/ MapperFailed)
    /\ [][(mapper_pc = "start" /\ ~EnvGood) => MapperFailed']_vars
    /\ [][~MapperFailed]_vars
    /\ [](mapper_in # <<>> =>
             /\ EnvGood
             /\ MAX_I = EnvMeaning("MAX_I").val
             /\ MAX_K = EnvMeaning("MAX_K").val)
    /\ [][mapper_pc # "start" =>
             MAX_I' = MAX_I /\ MAX_K' = MAX_K /\ environ' = environ]_vars

\* MAX_I was read as 2, MAX_K is missing: the mapper ended before the loop
C11_Witness ==
    /\ mapper_pc = "KeyError"
    /\ DOMAIN environ = {"MAX_I"}
    /\ MAX_I = 2
    /\ mapper_in = <<>> /\ mapper_out = <<>>

\* under a good environment a record was read and expanded
C11_RecordRead ==
    /\ EnvGood
    /\ Len(mapper_in) = 1 /\ Len(mapper_out) = 2
    /\ MAX_I = 1 /\ MAX_K = 2

----------------------------------------------------------------------------
(* Groups of the rounding table, and a group run on its own *)

\* the pairs fed so far, as maximal runs of one key
GroupsFed ==
    Runs([n \in 1..Len(reducer_in) |->
             CHOOSE p \in RoundingPairs : p.raw = reducer_in[n]])

GroupsDue ==
    IF reducer_pc = "done" THEN GroupsFed
    ELSE SubSeq(GroupsFed, 1, Len(GroupsFed) - 1)

\* the group's fragments in the order of the table: one fixed permutation
Canon(run) ==
    Flatten([r \in 1..Len(RoundingTable) |->
                SelectSeq(run, LAMBDA p : p = RoundingTable[r])])

RECURSIVE FeedAll(_, _)
FeedAll(st, run) ==
    IF run = <<>> THEN st
    ELSE FeedAll(ReduceRecord(st, Head(run).raw), Tail(run))

\* the flush of a group fed on its own to a reducer in its initial state
GroupFlush(run) ==
    LET st == FeedAll([key |-> NoKey, A |-> <<>>, B |-> <<>>], run)
    IN  FlushCall(st.key, st.A, st.B).log[1]

\* no value of the group is a multiple of 1e17: every sum and product in it
\* is exact
ExactRun(run) == \A n \in 1..Len(run) : IsSmall(run[n].v)

(* C13 as claimed: the line a group prints, or its printing none, is that of  *)
(* any permutation of the group's fragments, the one in table order included. *)
C13_OrderIndependent ==
    \A n \in 1..Len(flushed) :
       n <= Len(GroupsDue) =>
          flushed[n].out = GroupFlush(Canon(GroupsDue[n])).out

(* C13 as amended: a group is flushed as if it were fed alone to a fresh      *)
(* reducer, whatever the groups around it and their order; permuting its      *)
(* fragments does not change which inner indices the accumulators hold; and   *)
(* when no addition in the group rounds (here: no multiple of 1e17 among its  *)
(* values) it changes neither the accumulated sums nor the line printed.      *)
C13_OrderIndependentWhenExact ==
    /\ Len(flushed) = Len(GroupsDue)
    /\ \A n \in 1..Len(flushed) :
          n <= Len(GroupsDue) =>
             /\ flushed[n] = GroupFlush(GroupsDue[n])
             /\ DOMAIN flushed[n].A = DOMAIN GroupFlush(Canon(GroupsDue[n])).A
             /\ DOMAIN flushed[n].B = DOMAIN GroupFlush(Canon(GroupsDue[n])).B
             /\ ExactRun(GroupsDue[n]) =>
                   flushed[n] = GroupFlush(Canon(GroupsDue[n]))

\* an exact group arrived with A and B fragments interleaved, out of table
\* order, and printed its line
C13_Witness ==
    /\ reducer_pc = "done"
    /\ Len(flushed) = 1
    /\ Len(GroupsFed) = 1
    /\ ExactRun(GroupsFed[1])
    /\ Len(GroupsFed[1]) = 4
    /\ GroupsFed[1][1].src = "B" /\ GroupsFed[1][2].src = "A"
    /\ GroupsFed[1][3].src = "B" /\ GroupsFed[1][2].j = 1
    /\ GroupsFed[1] # Canon(GroupsFed[1])
    /\ flushed[1].out # <<>>

----------------------------------------------------------------------------
(* Multisets of lines, and the lines of a product *)

Count(lines, x) == Cardinality({n \in 1..Len(lines) : lines[n] = x})

BagOf(lines) ==
    [x \in {lines[n] : n \in 1..Len(lines)} |-> Count(lines, x)]

\* the lines the instances have computed and not yet written
ShardsTodo == Flatten([m \in 1..MaxShards |-> shards[m].todo])

\* the lines of the nonzero cells of the MAX_I x MAX_K product of the entries
ProductLines(es) ==
    {OutLine(c[1], c[2], ProductCell(es, c[1], c[2])) :
        c \in {d \in (0..(MAX_I - 1)) \X (0..(MAX_K - 1)) :
                  ProductCell(es, d[1], d[2]) # 0}}

(* C14: with the entries split over mapper instances whose writes interleave  *)
(* in any way, the lines written and still to write are, as a multiset, the   *)
(* lines one mapper prints for all the entries; once the map phase is over    *)
(* the collected output is that multiset; and after grouping the reducer      *)
(* prints exactly the lines of the product of the entries, each once.         *)
C14_ShardingIndependence ==
    /\ BagOf(mapper_out \o ShardsTodo)
          = BagOf(MapAll(mapper_in, MAX_I, MAX_K).out)
    /\ mapper_pc = "done" =>
          /\ ShardsTodo = <<>>
          /\ BagOf(mapper_out) = BagOf(MapAll(mapper_in, MAX_I, MAX_K).out)
    /\ reducer_pc = "done" =>
          /\ {reducer_out[n] : n \in 1..Len(reducer_out)}
                = ProductLines(EntriesRead)
          /\ Len(reducer_out) = Cardinality(ProductLines(EntriesRead))

\* two instances wrote in turns, so the collected lines are not in the order
\* one mapper prints them, and the job printed the line of the cell the two
\* entries meet in
C14_Witness ==
    /\ reducer_pc = "done"
    /\ Len(mapper_in) = 2
    /\ Len(mapper_out) = 4
    /\ mapper_out[1] = MapAll(mapper_in, MAX_I, MAX_K).out[1]
    /\ mapper_out[2] = MapAll(mapper_in, MAX_I, MAX_K).out[3]
    /\ mapper_out[3] = MapAll(mapper_in, MAX_I, MAX_K).out[2]
    /\ Len(reducer_out) = 1

----------------------------------------------------------------------------
(* The fragments received since the most recent key change *)

\* the run of pairs being accumulated: the last maximal run of one key
ActiveRun ==
    LET runs == Runs(PairsFed)
    IN  IF runs = <<>> THEN <<>> ELSE runs[Len(runs)]

\* the dict holds the one fragment (j, v) and nothing else
HoldsOnly(d, j, v) == Len(d) = 1 /\ d[1].k = j /\ d[1].v = v

(* C15: whenever the reducer has an active key, at every point of the run     *)
(* (after a fatal line and after the final flush included), the fragments     *)
(* received since the most recent key change all carry the active key and     *)
(* Avals / Bvals map exactly the inner indices of their A / B fragments to    *)
(* the sums of their values; the iteration that changes the key leaves in     *)
(* the accumulators the fragment of its own line and nothing of the earlier   *)
(* group.                                                                     *)
C15_AccumulatorIsolation ==
    /\ [](current_key # NoKey =>
             /\ ActiveRun # <<>>
             /\ \A n \in 1..Len(ActiveRun) : ActiveRun[n].key = current_key
             /\ AsMap(Avals) = RunMap(ActiveRun, "A")
             /\ AsMap(Bvals) = RunMap(ActiveRun, "B"))
    /\ [](current_key = NoKey => Avals = <<>> /\ Bvals = <<>>)
    /\ [][current_key' # current_key =>
             LET p == PairOf(reducer_in'[Len(reducer_in')])
             IN  /\ current_key' = p.key
                 /\ IF p.src = "A"
                    THEN HoldsOnly(Avals', p.j, p.v) /\ Bvals' = <<>>
                    ELSE HoldsOnly(Bvals', p.j, p.v) /\ Avals' = <<>>]_vars

\* group (0,0) had fragments of both sources and was flushed at the change to
\* (0,1), whose accumulators now hold that group's two fragments only
C15_Witness ==
    /\ reducer_pc = "loop"
    /\ current_key = <<0, 1>>
    /\ Len(flushed) = 1
    /\ flushed[1].A = [j \in {0} |-> 1]
    /\ flushed[1].B = [j \in {1} |-> -1]
    /\ AsMap(Avals) = [j \in {0} |-> 3]
    /\ AsMap(Bvals) = [j \in {0} |-> 2]

----------------------------------------------------------------------------
(* What the reducer was fed, as tagged pairs *)

TagOf(raw) == CHOOSE p \in TagPairs : p.raw = raw

TagsFed == [n \in 1..Len(reducer_in) |-> TagOf(reducer_in[n])]

TagRunsDue ==
    LET runs == Runs(TagsFed)
    IN  IF reducer_pc = "done" THEN runs ELSE SubSeq(runs, 1, Len(runs) - 1)

\* the fragments of a run whose tag is exactly A (isA) or anything else
TagSide(run, isA) == SelectSeq(run, LAMBDA p : (p.tag = <<"A">>) = isA)

RECURSIVE SideSum(_, _)
SideSum(side, j) ==
    IF side = <<>> THEN 0
    ELSE (IF Head(side).j = j THEN Head(side).v ELSE 0)
         + SideSum(Tail(side), j)

\* inner index -> sum of the values of one side of the run
SideMap(run, isA) ==
    LET side == TagSide(run, isA)
    IN  [j \in {side[n].j : n \in 1..Len(side)} |-> SideSum(side, j)]

\* the mapping m after v was added at j
Plus(m, j, v) ==
    [x \in DOMAIN m \cup {j} |->
        (IF x \in DOMAIN m THEN m[x] ELSE 0) + (IF x = j THEN v ELSE 0)]

(* C16: the iteration that reads a well-formed fragment never fails; it adds  *)
(* the value to Avals at the inner index if and only if the tag is exactly    *)
(* `A`, and to Bvals for every other tag (a, b, C, ` A`, the empty tag),      *)
(* leaving the other accumulator as the key change left it; so each group is  *)
(* flushed with A = the sums of its A-tagged fragments and B = the sums of    *)
(* all its other fragments, and the line printed is their dot product.        *)
C16_TagDispatch ==
    /\ [][\A p \in TagPairs :
             ReducerTook(p.raw) =>
                LET same == current_key = p.key
                    A0 == IF same THEN AsMap(Avals) ELSE AsMap(<<>>)
                    B0 == IF same THEN AsMap(Bvals) ELSE AsMap(<<>>)
                IN  /\ reducer_pc' = "loop"
                    /\ current_key' = p.key
                    /\ IF p.tag = <<"A">>
                       THEN /\ AsMap(Avals') = Plus(A0, p.j, p.v)
                            /\ AsMap(Bvals') = B0
                       ELSE /\ AsMap(Bvals') = Plus(B0, p.j, p.v)
                            /\ AsMap(Avals') = A0]_vars
    /\ [](/\ Len(flushed) = Len(TagRunsDue)
          /\ \A n \in 1..Len(flushed) :
                n <= Len(TagRunsDue) =>
                   /\ flushed[n].A = SideMap(TagRunsDue[n], TRUE)
                   /\ flushed[n].B = SideMap(TagRunsDue[n], FALSE)
                   /\ flushed[n].out
                         = Triple(flushed[n].key, flushed[n].A, flushed[n].B)
          /\ reducer_out = FlushedOut)

\* a group with one A fragment and one fragment tagged `a`, no B fragment at
\* all: the `a` value was multiplied in and the line 0 0 2.0 printed
C16_Witness ==
    /\ reducer_pc = "done"
    /\ reducer_in = <<TagTable[1].raw, TagTable[4].raw>>
    /\ reducer_out = <<OutLine(0, 0, 2)>>

----------------------------------------------------------------------------
(* What the job on entries outside the result was given, and what it printed *)

OutsideEntryOf(raw) == CHOOSE e \in OutsideEntries : e.raw = raw

OutsideRead == [n \in 1..Len(mapper_in) |-> OutsideEntryOf(mapper_in[n])]

\* an A entry whose row, or a B entry whose column, is a row or column of the
\* MAX_I x MAX_K result
IsInside(e) ==
    IF e.src = "A" THEN e.row \in 0..(MAX_I - 1) ELSE e.col \in 0..(MAX_K - 1)

\* the first two fields of an output line `i k total`
OutKey(line) ==
    LET fs == SplitAll(Strip(line), " ")
    IN  <<ParseInt(fs[1]).val, ParseInt(fs[2]).val>>

(* C17: in the whole job, every line the reducer prints has 0 <= i < MAX_I    *)
(* and 0 <= k < MAX_K, also when entries carry negative or too large rows or  *)
(* columns; groups whose key lies outside the result are flushed and print    *)
(* nothing; and the output at the end is the product of the entries without   *)
(* the A entries whose row and the B entries whose column is outside: those   *)
(* contribute to no line.                                                     *)
C17_OutputKeysInside ==
    /\ \A n \in 1..Len(reducer_out) :
          /\ OutKey(reducer_out[n])[1] \in 0..(MAX_I - 1)
          /\ OutKey(reducer_out[n])[2] \in 0..(MAX_K - 1)
    /\ \A n \in 1..Len(flushed) :
          flushed[n].key \notin (0..(MAX_I - 1)) \X (0..(MAX_K - 1))
             => flushed[n].out = <<>>
    /\ reducer_pc = "done" =>
          /\ {reducer_out[n] : n \in 1..Len(reducer_out)}
                = ProductLines(SelectSeq(OutsideRead, IsInside))
          /\ Len(reducer_out)
                = Cardinality(ProductLines(SelectSeq(OutsideRead, IsInside)))

\* A(0,0), A(5,0) and B(0,0) were read: the group of key (5,0) held the A
\* value 3 alone and printed nothing, the output is the line of cell (0,0)
C17_Witness ==
    /\ reducer_pc = "done"
    /\ {OutsideRead[n] : n \in 1..Len(OutsideRead)}
          = { OutsideEntryOf(MatrixEntry(<<"A">>, "A", 0, 0, 1).raw),
              OutsideEntryOf(MatrixEntry(<<"A">>, "A", 5, 0, 3).raw),
              OutsideEntryOf(MatrixEntry(<<"B">>, "B", 0, 0, 1).raw) }
    /\ \E n \in 1..Len(flushed) :
          /\ flushed[n].key = <<5, 0>>
          /\ flushed[n].A = [j \in {0} |-> 3]
    /\ reducer_out = <<OutLine(0, 0, 1)>>

----------------------------------------------------------------------------
(* What the WordCount reducer was fed, as counted words and as runs *)

CountedOf(raw) == CHOOSE p \in WordPairs : p.raw = raw

\* the well-formed lines among those fed so far, in order
WordsFed ==
    LET good == Without(word_in, WordBadLines)
    IN  [n \in 1..Len(good) |-> CountedOf(good[n])]

\* the runs whose line is due: all of them once the input has ended, all but
\* the one still being counted before
WordRunsDue ==
    LET runs == Runs(WordsFed)
    IN  IF word_pc = "done" THEN runs ELSE SubSeq(runs, 1, Len(runs) - 1)

RECURSIVE CountSum(_)
CountSum(run) ==
    IF run = <<>> THEN 0 ELSE Head(run).count + CountSum(Tail(run))

\* the counted words whose word is w
OfWord(ps, w) == SelectSeq(ps, LAMBDA p : p.key = w)

(* C18: over any stream of lines the WordCount reducer has printed exactly    *)
(* one line per completed maximal contiguous run of well-formed lines with    *)
(* the same word, in stream order, carrying the word and the sum of the run's *)
(* counts; the last run is printed once, at end of input; with no well-formed *)
(* line nothing is printed; and when equal words are contiguous the output    *)
(* has one line per distinct word, with the word's total count.               *)
C18_WordFold ==
    /\ Len(word_out) = Len(WordRunsDue)
    /\ \A n \in 1..Len(word_out) :
          n <= Len(WordRunsDue) =>
             word_out[n] = WordOutLine(WordRunsDue[n][1].key,
                                       CountSum(WordRunsDue[n]))
    /\ WordsFed = <<>> => word_out = <<>>
    /\ word_pc = "done" /\ Grouped(WordsFed) =>
          \A p \in {WordsFed[n] : n \in 1..Len(WordsFed)} :
             Cardinality({n \in 1..Len(word_out) :
                             word_out[n]
                                = WordOutLine(p.key,
                                              CountSum(OfWord(WordsFed, p.key)))})
                = 1

\* word a came back after word b: three runs, three lines, the last one at
\* end of input
C18_Witness ==
    /\ word_pc = "done"
    /\ word_in = <<Counted(<<"a">>, 1).raw, Counted(<<"a">>, 2).raw,
                   Counted(<<"b">>, 1).raw, Counted(<<"a">>, -1).raw>>
    /\ word_out = <<WordOutLine(<<"a">>, 3), WordOutLine(<<"b">>, 1),
                    WordOutLine(<<"a">>, -1)>>

WordTook(raw) == word_in' = Append(word_in, raw)

\* the reducer run from its initial state over the lines, end of input
\* included: the lines it prints
RECURSIVE WordRun(_, _)
WordRun(st, lines) ==
    IF lines = <<>> THEN WordLast(st.word, st.count)
    ELSE WordRecord(st, Head(lines)).out
            \o WordRun(WordRecord(st, Head(lines)), Tail(lines))

(* C19: the iteration that reads a blank line, a line without a tab or a line *)
(* whose count is not an integer prints nothing, stays in the loop and leaves *)
(* current_word and current_count as they were; and at end of input the       *)
(* output is what the reducer prints for the stream without those lines, so   *)
(* such a line inside a run does not split the run.                           *)
C19_MalformedSkipped ==
    /\ [][\A raw \in WordBadLines :
             WordTook(raw) =>
                /\ word_out' = word_out
                /\ word_pc' = "loop"
                /\ current_word' = current_word
                /\ current_count' = current_count]_vars
    /\ [](word_pc = "done" =>
             word_out = WordRun(WordState(NoWord, 0, <<>>),
                                Without(word_in, WordBadLines)))

\* a line with a count that is not an integer and a blank line arrived inside
\* a run of word a: one line with the sum of the run
C19_Witness ==
    /\ word_pc = "done"
    /\ word_in = <<Counted(<<"a">>, 1).raw, <<"a", TAB, "x", NL>>, <<NL>>,
                   Counted(<<"a">>, 2).raw>>
    /\ word_out = <<WordOutLine(<<"a">>, 3)>>

====
